---- MODULE Spec2Model ----
(***************************************************************************)
(* podner: the transcription pipeline of                                   *)
(* src/core/transcription/transcription.py and the date normalisation of   *)
(* src/utils/date_utils.py.                                                *)
(*                                                                         *)
(* A Python str is a sequence of symbols.  A symbol is one digit, one      *)
(* punctuation or whitespace character, or one maximal run of letters (a   *)
(* word).  In the eight date formats every %B is delimited by whitespace   *)
(* or by the start of the string, so a month name is matched against a     *)
(* whole word or not at all and the word-level view loses nothing.         *)
(***************************************************************************)
EXTENDS Integers, Sequences, FiniteSets, TLC

VARIABLES
    date_str,   \* to_iso_date: the argument
    fmt_i,      \* to_iso_date: index in date_formats of the format tried next
    date_pc,    \* to_iso_date: "idle", "loop", "returned", "raised"
    date_ret,   \* to_iso_date: the value returned, or the exception raised
    pc,                 \* per run: the statement process_audio_from_url is at
    url,                \* per run: the argument of process_audio_from_url
    info_dict,          \* per run: download_audio_from_yt's info_dict
    audio_dl_data,      \* per run: the AudioDLData built and returned
    result,             \* per run: what recognize_once returned
    transcription_data, \* per run: what transcribe_audio returned
    exc,                \* per run: the exception in flight
    ret,                \* per run: what process_audio_from_url returned
    stdout,             \* per run: the messages printed, in order
    disk,               \* the scratch files that exist
    storage,            \* data/transcriptions: file name -> document
    clock,              \* the UTC clock, in seconds
    started,            \* history, per run: the stages begun, in order
    failed,             \* history, per run: the stage that failed, or "none"
    written,            \* history, per run: the documents it wrote
    removed             \* history, per run: the paths it passed to os.remove

dateVars == <<date_str, fmt_i, date_pc, date_ret>>

runVars ==
    <<pc, url, info_dict, audio_dl_data, result, transcription_data, exc, ret,
      stdout, disk, storage, clock, started, failed, written, removed>>

vars == <<dateVars, runVars>>

(***************************************************************************)
(* datetime.strptime / strftime, as CPython's _strptime computes them.     *)
(***************************************************************************)
DigitChars == <<"0", "1", "2", "3", "4", "5", "6", "7", "8", "9">>

IsDigit(c) == \E i \in 1..10 : DigitChars[i] = c

DigitVal(c) == (CHOOSE i \in 1..10 : DigitChars[i] = c) - 1

\* the locale's full month names, lower-cased (the regex is compiled IGNORECASE)
MonthNames ==
    <<"january", "february", "march", "april", "may", "june", "july",
      "august", "september", "october", "november", "december">>

MonthNamesCapitalized ==
    <<"January", "February", "March", "April", "May", "June", "July",
      "August", "September", "October", "November", "December">>

MonthNamesUpper ==
    <<"JANUARY", "FEBRUARY", "MARCH", "APRIL", "MAY", "JUNE", "JULY",
      "AUGUST", "SEPTEMBER", "OCTOBER", "NOVEMBER", "DECEMBER">>

IsMonthName(w, i) ==
    w \in {MonthNames[i], MonthNamesCapitalized[i], MonthNamesUpper[i]}

IsSpace(c) == c \in {" ", "\t", "\n"}

\* number of leading whitespace symbols of s
RECURSIVE SpaceRun(_)
SpaceRun(s) ==
    IF s # <<>> /\ IsSpace(Head(s)) THEN 1 + SpaceRun(Tail(s)) ELSE 0

Drop(s, n) == SubSeq(s, n + 1, Len(s))

Alt(n, v) == [len |-> n, val |-> v]

\* (?P<Y>\d\d\d\d)
AltsY(s) ==
    IF Len(s) >= 4 /\ \A i \in 1..4 : IsDigit(s[i])
    THEN <<Alt(4, 1000 * DigitVal(s[1]) + 100 * DigitVal(s[2])
                  + 10 * DigitVal(s[3]) + DigitVal(s[4]))>>
    ELSE <<>>

\* (?P<m>1[0-2]|0[1-9]|[1-9])
AltsM(s) ==
    (IF Len(s) >= 2 /\ s[1] = "1" /\ s[2] \in {"0", "1", "2"}
     THEN <<Alt(2, 10 + DigitVal(s[2]))>> ELSE <<>>)
    \o (IF Len(s) >= 2 /\ s[1] = "0" /\ IsDigit(s[2]) /\ s[2] # "0"
        THEN <<Alt(2, DigitVal(s[2]))>> ELSE <<>>)
    \o (IF Len(s) >= 1 /\ IsDigit(s[1]) /\ s[1] # "0"
        THEN <<Alt(1, DigitVal(s[1]))>> ELSE <<>>)

\* (?P<d>3[0-1]|[1-2]\d|0[1-9]|[1-9]| [1-9])
AltsD(s) ==
    (IF Len(s) >= 2 /\ s[1] = "3" /\ s[2] \in {"0", "1"}
     THEN <<Alt(2, 30 + DigitVal(s[2]))>> ELSE <<>>)
    \o (IF Len(s) >= 2 /\ s[1] \in {"1", "2"} /\ IsDigit(s[2])
        THEN <<Alt(2, 10 * DigitVal(s[1]) + DigitVal(s[2]))>> ELSE <<>>)
    \o (IF Len(s) >= 2 /\ s[1] = "0" /\ IsDigit(s[2]) /\ s[2] # "0"
        THEN <<Alt(2, DigitVal(s[2]))>> ELSE <<>>)
    \o (IF Len(s) >= 1 /\ IsDigit(s[1]) /\ s[1] # "0"
        THEN <<Alt(1, DigitVal(s[1]))>> ELSE <<>>)
    \o (IF Len(s) >= 2 /\ s[1] = " " /\ IsDigit(s[2]) /\ s[2] # "0"
        THEN <<Alt(2, DigitVal(s[2]))>> ELSE <<>>)

\* (?P<B>january|february|...), one whole word
AltsB(s) ==
    IF Len(s) >= 1 /\ \E i \in 1..12 : IsMonthName(s[1], i)
    THEN <<Alt(1, CHOOSE i \in 1..12 : IsMonthName(s[1], i))>>
    ELSE <<>>

\* whitespace in a format becomes \s+ : greedy, longest run first
AltsSpace(s) == [k \in 1..SpaceRun(s) |-> Alt(SpaceRun(s) + 1 - k, 0)]

\* any other character of a format matches itself
AltsLiteral(c, s) ==
    IF Len(s) >= 1 /\ s[1] = c THEN <<Alt(1, 0)>> ELSE <<>>

\* the ways one element of a format matches a prefix of s, in the order the
\* regex engine tries them
Alts(f, s) ==
    CASE f = "%Y" -> AltsY(s)
      [] f = "%m" -> AltsM(s)
      [] f = "%d" -> AltsD(s)
      [] f = "%B" -> AltsB(s)
      [] f = " "  -> AltsSpace(s)
      [] OTHER    -> AltsLiteral(f, s)

Bind(acc, f, v) ==
    CASE f = "%Y" -> [acc EXCEPT !.Y = v]
      [] f \in {"%m", "%B"} -> [acc EXCEPT !.m = v]
      [] f = "%d" -> [acc EXCEPT !.d = v]
      [] OTHER    -> acc

\* every match of the format's regex against a prefix of s, in the engine's
\* backtracking order; re.match returns the first
RECURSIVE RegexMatches(_, _, _), RegexAlts(_, _, _, _)
RegexMatches(fmt, s, acc) ==
    IF fmt = <<>> THEN <<[val |-> acc, rest |-> s]>>
    ELSE RegexAlts(Alts(Head(fmt), s), fmt, s, acc)

RegexAlts(alts, fmt, s, acc) ==
    IF alts = <<>> THEN <<>>
    ELSE RegexMatches(Tail(fmt), Drop(s, Head(alts).len),
                      Bind(acc, Head(fmt), Head(alts).val))
         \o RegexAlts(Tail(alts), fmt, s, acc)

IsLeap(y) == (y % 4 = 0) /\ ((y % 100 # 0) \/ (y % 400 = 0))

DaysInMonth(y, m) ==
    IF m = 2 THEN (IF IsLeap(y) THEN 29 ELSE 28)
    ELSE IF m \in {4, 6, 9, 11} THEN 30 ELSE 31

\* datetime(year, month, day) accepts the triple
ValidDate(v) ==
    /\ v.Y >= 1 /\ v.Y <= 9999
    /\ v.m \in 1..12
    /\ v.d >= 1 /\ v.d <= DaysInMonth(v.Y, v.m)

StrptimeDefaults == [Y |-> 1900, m |-> 1, d |-> 1]

\* datetime.strptime(s, fmt): [ok |-> TRUE, val |-> date] or a ValueError
strptime(s, fmt) ==
    LET ms == RegexMatches(fmt, s, StrptimeDefaults) IN
    IF ms = <<>> THEN [ok |-> FALSE, val |-> StrptimeDefaults]
    ELSE IF Head(ms).rest # <<>> THEN [ok |-> FALSE, val |-> StrptimeDefaults]
    ELSE IF ~ValidDate(Head(ms).val) THEN [ok |-> FALSE, val |-> StrptimeDefaults]
    ELSE [ok |-> TRUE, val |-> Head(ms).val]

Digit(n) == DigitChars[n + 1]

Pad2(n) == <<Digit(n \div 10), Digit(n % 10)>>

Pad4(n) ==
    <<Digit(n \div 1000), Digit((n \div 100) % 10), Digit((n \div 10) % 10),
      Digit(n % 10)>>

\* .strftime("%Y-%m-%d"); every build renders a year of 1000 or later with
\* its four digits
strftime(v) == Pad4(v.Y) \o <<"-">> \o Pad2(v.m) \o <<"-">> \o Pad2(v.d)

(***************************************************************************)
(* Python values: a str or None.                                           *)
(***************************************************************************)
None == [isNone |-> TRUE, s |-> <<>>]

Str(chars) == [isNone |-> FALSE, s |-> chars]

NoException == [type |-> "none", arg |-> None]

Raise(t, a) == [type |-> t, arg |-> a]

(***************************************************************************)
(* to_iso_date                                                             *)
(***************************************************************************)
date_formats_us_swapped ==
    << <<"%Y", "%m", "%d">>,
       <<"%d", "-", "%m", "-", "%Y">>,
       <<"%d", ".", "%m", ".", "%Y">>,
       <<"%d", "/", "%m", "/", "%Y">>,
       <<"%Y", "/", "%m", "/", "%d">>,
       <<"%B", " ", "%d", ",", " ", "%Y">>,
       <<"%d", " ", "%B", " ", "%Y">>,
       <<"%Y", "-", "%m", "-", "%d">> >>

date_formats ==
    << <<"%Y", "%m", "%d">>,                    \* 20240214
       <<"%d", "-", "%m", "-", "%Y">>,          \* 14-02-2024
       <<"%d", ".", "%m", ".", "%Y">>,          \* 14.02.2024
       <<"%m", "/", "%d", "/", "%Y">>,          \* 02/14/2024
       <<"%Y", "/", "%m", "/", "%d">>,          \* 2024/02/14
       <<"%B", " ", "%d", ",", " ", "%Y">>,     \* February 14, 2024
       <<"%d", " ", "%B", " ", "%Y">>,          \* 14 February 2024
       <<"%Y", "-", "%m", "-", "%d">> >>        \* 2024-02-14

\* one iteration of the loop: the try body and its except ValueError clause.
\* strptime raises TypeError, which the clause does not catch, for a
\* non-str argument.
TryFormat(x, i) ==
    IF x.isNone
    THEN [kind |-> "raise", value |-> None, exc |-> Raise("TypeError", x)]
    ELSE LET p == strptime(x.s, date_formats[i]) IN
         IF p.ok
         THEN [kind |-> "return", value |-> Str(strftime(p.val)),
               exc |-> NoException]
         ELSE [kind |-> "pass", value |-> None, exc |-> NoException]

\* the statement after the loop
CouldNotParse(x) ==
    [kind |-> "raise", value |-> None, exc |-> Raise("ValueError", x)]

\* the call as a whole, from format i on
RECURSIVE to_iso_date_from(_, _)
to_iso_date_from(x, i) ==
    IF i > Len(date_formats) THEN CouldNotParse(x)
    ELSE IF TryFormat(x, i).kind = "pass" THEN to_iso_date_from(x, i + 1)
    ELSE TryFormat(x, i)

to_iso_date(x) == to_iso_date_from(x, 1)

(***************************************************************************)
(* The arguments to_iso_date is exercised with: calendar dates written in  *)
(* each of the eight documented patterns, and strings written in none.     *)
(***************************************************************************)
Years == {1999, 2024}

Months == {2, 12}

Days == {1, 14, 29, 31}

Dates == [Y : Years, m : Months, d : Days]

PatternIds == 1..8

\* the date v written in the k-th documented pattern
Render(k, v) ==
    CASE k = 1 -> Pad4(v.Y) \o Pad2(v.m) \o Pad2(v.d)
      [] k = 2 -> Pad2(v.d) \o <<"-">> \o Pad2(v.m) \o <<"-">> \o Pad4(v.Y)
      [] k = 3 -> Pad2(v.d) \o <<".">> \o Pad2(v.m) \o <<".">> \o Pad4(v.Y)
      [] k = 4 -> Pad2(v.m) \o <<"/">> \o Pad2(v.d) \o <<"/">> \o Pad4(v.Y)
      [] k = 5 -> Pad4(v.Y) \o <<"/">> \o Pad2(v.m) \o <<"/">> \o Pad2(v.d)
      [] k = 6 -> <<MonthNamesCapitalized[v.m], " ">> \o Pad2(v.d)
                  \o <<",", " ">> \o Pad4(v.Y)
      [] k = 7 -> Pad2(v.d) \o <<" ", MonthNamesCapitalized[v.m], " ">>
                  \o Pad4(v.Y)
      [] k = 8 -> Pad4(v.Y) \o <<"-">> \o Pad2(v.m) \o <<"-">> \o Pad2(v.d)

PatternInputs == {Render(k, v) : k \in PatternIds, v \in Dates}

\* accepted by strptime although not zero-padded or not capitalised
LooseInputs ==
    { <<"2", "0", "2", "4", "2", "1", "4">>,
      <<"2", "0", "2", "4", "1", "1", "1">>,
      <<"1", "4", "-", "2", "-", "2", "0", "2", "4">>,
      <<"2", "0", "2", "4", "-", "2", "-", "4">>,
      <<"february", " ", " ", "1", "4", ",", " ", "2", "0", "2", "4">> }

\* written in none of the eight patterns
NoPatternInputs ==
    { <<"not", "-", "a", "-", "date">>,
      <<>>,
      <<"1", "4", "/", "0", "2", "/", "2", "0", "2", "4">>,
      <<"Feb", " ", "1", "4", ",", " ", "2", "0", "2", "4">>,
      <<"1", "4", "-", "0", "2", "-", "2", "4">>,
      <<"2", "0", "2", "4", ".", "0", "2", ".", "1", "4">>,
      <<"2", "0", "2", "4", "0", "2", "1", "4", " ">>,
      <<"2", "0", "2", "4", "-", "0", "2", "-", "1", "4", "T", "1", "0">>,
      <<"2", "0", "2", "4", "1", "3", "0", "1">>,
      <<"0", "0", "0", "0", "-", "0", "2", "-", "1", "4">> }

DateInputs ==
    {Str(c) : c \in PatternInputs \cup LooseInputs \cup NoPatternInputs}
    \cup {None}

\* no call of to_iso_date under way on its own
DateIdle ==
    /\ date_str = None
    /\ fmt_i = 1
    /\ date_pc = "idle"
    /\ date_ret = [kind |-> "pass", value |-> None, exc |-> NoException]

DateInit ==
    /\ date_str \in DateInputs
    /\ fmt_i = 1
    /\ date_pc = "loop"
    /\ date_ret = [kind |-> "pass", value |-> None, exc |-> NoException]

\* for fmt in date_formats: one iteration
DateTryFormat ==
    /\ date_pc = "loop"
    /\ fmt_i <= Len(date_formats)
    /\ LET r == TryFormat(date_str, fmt_i) IN
       /\ date_ret' = r
       /\ date_pc' = CASE r.kind = "return" -> "returned"
                       [] r.kind = "raise"  -> "raised"
                       [] OTHER             -> "loop"
       /\ fmt_i' = IF r.kind = "pass" THEN fmt_i + 1 ELSE fmt_i
    /\ UNCHANGED date_str
    /\ UNCHANGED runVars

\* the loop ended without a return: raise ValueError
DateExhausted ==
    /\ date_pc = "loop"
    /\ fmt_i > Len(date_formats)
    /\ date_ret' = CouldNotParse(date_str)
    /\ date_pc' = "raised"
    /\ UNCHANGED <<date_str, fmt_i>>
    /\ UNCHANGED runVars

(***************************************************************************)
(* The pipeline: process_audio_from_url and the functions it calls.        *)
(***************************************************************************)
NumRuns == 2

Runs == 1..NumRuns

MaxClock == 1

\* a Python dict is a function from its keys; {} has no keys
EmptyDict == [k \in {} |-> None]

Truthy(d) == DOMAIN d # {}

Has(d, k) == k \in DOMAIN d

\* the source URL the caller passes in its r-th call: a different one each time
SourceUrl(r) == Str(<<"https://host/watch?v=", Digit(r)>>)

\* what the media source may report for each optional field; Absent marks a
\* key the source leaves out of info_dict
Absent == [isNone |-> TRUE, s |-> <<"absent">>]

UploadDates ==
    {Str(<<"2", "0", "2", "4", "0", "2", "1", "4">>),
     Str(<<"not", "-", "a", "-", "date">>), None, Absent}

DurationStrings == {Str(<<"3", ":", "0", "5">>), None, Absent}

Languages == {Str(<<"en">>), None, Absent}

Titles == {Str(<<"Talk">>), None, Absent}

OptionalKeys == {"upload_date", "duration_string", "language", "title"}

\* the dict holding the entries of f that are not Absent
DictOf(f) == [k \in {j \in DOMAIN f : f[j] # Absent} |-> f[k]]

\* ydl.extract_info(url, download=True): original_url is the URL given by
\* the caller; every other field is whatever the source reports
InfoDicts(u) ==
    { DictOf([original_url |-> u, upload_date |-> d, duration_string |-> ds,
              language |-> l, title |-> ti]) :
        d \in UploadDates, ds \in DurationStrings, l \in Languages,
        ti \in Titles }

\* the scratch files of run r: ydl.prepare_filename(info_dict) under the
\* run's own temp_dir, and NamedTemporaryFile(suffix=".wav").name
downloaded_file(r) == Str(<<"raw", Digit(r)>>)

wav_path(r) == Str(<<"wav", Digit(r)>>)

\* info_dict[k]: the value, or KeyError
Subscript(d, k) ==
    IF Has(d, k) THEN [exc |-> NoException, value |-> d[k]]
    ELSE [exc |-> Raise("KeyError", Str(<<k>>)), value |-> None]

\* the first exception among evaluations made in order, or NoException
RECURSIVE FirstRaised(_)
FirstRaised(es) ==
    IF es = <<>> THEN NoException
    ELSE IF Head(es).type # "none" THEN Head(es)
    ELSE FirstRaised(Tail(es))

\* to_iso_date(info_dict["upload_date"])
IsoUploadDate(info) ==
    IF ~Has(info, "upload_date") THEN Subscript(info, "upload_date")
    ELSE LET r == to_iso_date(info["upload_date"]) IN
         [exc |-> r.exc, value |-> r.value]

\* the dict display of lines 59-66, its values evaluated in order
AudioDLData(info, wav) ==
    LET e == FirstRaised(<<Subscript(info, "original_url").exc,
                           IsoUploadDate(info).exc,
                           Subscript(info, "duration_string").exc,
                           Subscript(info, "language").exc,
                           Subscript(info, "title").exc>>)
    IN  IF e.type # "none" THEN [exc |-> e, value |-> EmptyDict]
        ELSE [exc |-> NoException,
              value |-> [source_url |-> info["original_url"],
                         audio_file_path |-> wav,
                         audio_source_date |-> IsoUploadDate(info).value,
                         duration_string |-> info["duration_string"],
                         language |-> info["language"],
                         title |-> info["title"]]]

\* datetime.now(timezone.utc).isoformat()
isoformat(now) == Str(<<"T", Digit(now)>>)

TranscriptionData_TitleAsLanguage(adl, text, now) ==
    [source_url |-> adl["source_url"],
     transcription_text |-> text,
     transcription_date |-> isoformat(now),
     audio_source_date |-> adl["audio_source_date"],
     duration_string |-> adl["duration_string"],
     language |-> adl["title"],
     title |-> adl["title"]]

\* the dict display of lines 89-97
TranscriptionData(adl, text, now) ==
    [source_url |-> adl["source_url"],
     transcription_text |-> text,
     transcription_date |-> isoformat(now),
     audio_source_date |-> adl["audio_source_date"],
     duration_string |-> adl["duration_string"],
     language |-> adl["language"],
     title |-> adl["title"]]

\* what speech_recognizer.recognize_once() may return
RecognitionResults ==
    {[reason |-> "RecognizedSpeech", text |-> Str(<<"hello">>)],
     [reason |-> "RecognizedSpeech", text |-> Str(<<>>)],
     [reason |-> "NoMatch", text |-> Str(<<>>)],
     [reason |-> "Canceled", text |-> Str(<<>>)]}

NoResult == [reason |-> "none", text |-> None]

\* f"transcription_{now.strftime('%Y%m%d%H%M%S')}.json": one name per second
json_filename(now) == Str(<<"transcription_", Digit(now), ".json">>)

\* the exception classes raised here; each derives from Exception
ExceptionTypes ==
    {"KeyError", "TypeError", "ValueError", "DownloadError", "OSError",
     "RuntimeError"}

IsException(t) == t \in ExceptionTypes

CatchesOnlyRuntimeError(t) == t = "RuntimeError"

\* except Exception, line 72
CatchesDownload(t) == IsException(t)

\* except Exception, line 129
CatchesProcess(t) == IsException(t)

\* what process_audio_from_url returns: a dict or a str
RetDict(d) == [kind |-> "dict", dict |-> d, str |-> <<>>]

RetStr(s) == [kind |-> "str", dict |-> EmptyDict, str |-> s]

NoReturn == [kind |-> "none", dict |-> EmptyDict, str |-> <<>>]

\* Python truth value of a returned object
Falsy(v) ==
    \/ v.kind = "dict" /\ ~Truthy(v.dict)
    \/ v.kind = "str" /\ v.str = <<>>

RunInit ==
    /\ pc = [r \in Runs |-> "idle"]
    /\ url = [r \in Runs |-> None]
    /\ info_dict = [r \in Runs |-> EmptyDict]
    /\ audio_dl_data = [r \in Runs |-> EmptyDict]
    /\ result = [r \in Runs |-> NoResult]
    /\ transcription_data = [r \in Runs |-> EmptyDict]
    /\ exc = [r \in Runs |-> NoException]
    /\ ret = [r \in Runs |-> NoReturn]
    /\ stdout = [r \in Runs |-> <<>>]
    /\ disk = {}
    /\ storage = EmptyDict
    /\ clock = 0
    /\ started = [r \in Runs |-> <<>>]
    /\ failed = [r \in Runs |-> "none"]
    /\ written = [r \in Runs |-> <<>>]
    /\ removed = [r \in Runs |-> <<>>]

\* process_audio_from_url(url) is called.  The program is single-threaded:
\* a call begins when the calls before it have ended.
Start(r) ==
    /\ pc[r] = "idle"
    /\ \A q \in Runs : q < r => pc[q] \in {"done", "escaped"}
    /\ url' = [url EXCEPT ![r] = SourceUrl(r)]
    /\ pc' = [pc EXCEPT ![r] = "extract"]
    /\ UNCHANGED <<info_dict, audio_dl_data, result, transcription_data, exc,
                   ret, stdout, disk, storage, clock, started, failed,
                   written, removed>>
    /\ UNCHANGED dateVars

\* lines 43-46: yt-dlp downloads the media file and returns info_dict.
\* Nothing reads a field of info_dict before line 60 and nothing writes one,
\* so what the source reported is drawn where it is first read, in Metadata.
ExtractInfo(r) ==
    /\ pc[r] = "extract"
    /\ disk' = disk \cup {downloaded_file(r)}
    /\ stdout' = [stdout EXCEPT ![r] = Append(@, "Downloading audio")]
    /\ started' = [started EXCEPT ![r] = Append(@, "fetch")]
    /\ pc' = [pc EXCEPT ![r] = "transcode"]
    /\ UNCHANGED <<url, info_dict, audio_dl_data, result, transcription_data,
                   exc, ret, storage, clock, failed, written, removed>>
    /\ UNCHANGED dateVars

\* lines 43-46: yt-dlp raises (unreachable, unsupported, no audio stream)
ExtractInfoRaises(r) ==
    /\ pc[r] = "extract"
    /\ exc' = [exc EXCEPT ![r] = Raise("DownloadError", url[r])]
    /\ stdout' = [stdout EXCEPT ![r] = Append(@, "Downloading audio")]
    /\ started' = [started EXCEPT ![r] = Append(@, "fetch")]
    /\ failed' = [failed EXCEPT ![r] = "fetch"]
    /\ pc' = [pc EXCEPT ![r] = "download_except"]
    /\ UNCHANGED <<url, info_dict, audio_dl_data, result, transcription_data,
                   ret, disk, storage, clock, written, removed>>
    /\ UNCHANGED dateVars

\* lines 49-56: the .wav file is created and moviepy writes the audio to it
Transcode(r) ==
    /\ pc[r] = "transcode"
    /\ downloaded_file(r) \in disk
    /\ disk' = disk \cup {wav_path(r)}
    /\ stdout' = [stdout EXCEPT ![r] = Append(@, "Converting audio")]
    /\ started' = [started EXCEPT ![r] = Append(@, "transcode")]
    /\ pc' = [pc EXCEPT ![r] = "metadata"]
    /\ UNCHANGED <<url, info_dict, audio_dl_data, result, transcription_data,
                   exc, ret, storage, clock, failed, written, removed>>
    /\ UNCHANGED dateVars

\* lines 49-56: the .wav file is created and moviepy raises
TranscodeRaises(r) ==
    /\ pc[r] = "transcode"
    /\ disk' = disk \cup {wav_path(r)}
    /\ exc' = [exc EXCEPT ![r] = Raise("OSError", downloaded_file(r))]
    /\ stdout' = [stdout EXCEPT ![r] = Append(@, "Converting audio")]
    /\ started' = [started EXCEPT ![r] = Append(@, "transcode")]
    /\ failed' = [failed EXCEPT ![r] = "transcode"]
    /\ pc' = [pc EXCEPT ![r] = "download_except"]
    /\ UNCHANGED <<url, info_dict, audio_dl_data, result, transcription_data,
                   ret, storage, clock, written, removed>>
    /\ UNCHANGED dateVars

\* lines 59-66: audio_dl_data is built from info_dict
Metadata(r) ==
    /\ pc[r] = "metadata"
    /\ \E info \in InfoDicts(url[r]) :
        /\ info_dict' = [info_dict EXCEPT ![r] = info]
        /\ LET a == AudioDLData(info, wav_path(r)) IN
           IF a.exc.type = "none"
           THEN /\ audio_dl_data' = [audio_dl_data EXCEPT ![r] = a.value]
                /\ pc' = [pc EXCEPT ![r] = "remove"]
                /\ UNCHANGED <<exc, failed>>
           ELSE /\ exc' = [exc EXCEPT ![r] = a.exc]
                /\ failed' = [failed EXCEPT ![r] = "metadata"]
                /\ pc' = [pc EXCEPT ![r] = "download_except"]
                /\ UNCHANGED audio_dl_data
    /\ UNCHANGED <<url, result, transcription_data, ret, stdout,
                   disk, storage, clock, started, written, removed>>
    /\ UNCHANGED dateVars

\* lines 69-71: os.remove(downloaded_file); return audio_dl_data
RemoveDownloaded(r) ==
    /\ pc[r] = "remove"
    /\ removed' = [removed EXCEPT ![r] = Append(@, downloaded_file(r))]
    /\ IF downloaded_file(r) \in disk
       THEN /\ disk' = disk \ {downloaded_file(r)}
            /\ info_dict' = [info_dict EXCEPT ![r] = EmptyDict]
            /\ pc' = [pc EXCEPT ![r] = "transcribe"]
            /\ UNCHANGED <<exc, failed>>
       ELSE /\ exc' = [exc EXCEPT ![r] = Raise("OSError", downloaded_file(r))]
            /\ failed' = [failed EXCEPT ![r] = "fetch"]
            /\ pc' = [pc EXCEPT ![r] = "download_except"]
            /\ UNCHANGED <<disk, info_dict>>
    /\ UNCHANGED <<url, audio_dl_data, result, transcription_data, ret,
                   stdout, storage, clock, started, written>>
    /\ UNCHANGED dateVars

\* lines 72-73: except Exception as e: raise RuntimeError(...)
DownloadExcept(r) ==
    /\ pc[r] = "download_except"
    /\ exc' = [exc EXCEPT ![r] =
                  IF CatchesDownload(@.type) THEN Raise("RuntimeError", @.arg)
                  ELSE @]
    /\ info_dict' = [info_dict EXCEPT ![r] = EmptyDict]
    /\ pc' = [pc EXCEPT ![r] = "except"]
    /\ UNCHANGED <<url, audio_dl_data, result, transcription_data, ret,
                   stdout, disk, storage, clock, started, failed, written,
                   removed>>
    /\ UNCHANGED dateVars

\* lines 77-105: recognize_once returns and its reason is mapped
TranscribeAudio(r) ==
    /\ pc[r] = "transcribe"
    /\ wav_path(r) \in disk
    /\ \E res \in RecognitionResults :
        /\ result' = [result EXCEPT ![r] = res]
        /\ IF res.reason = "RecognizedSpeech"
           THEN /\ transcription_data' =
                       [transcription_data EXCEPT ![r] =
                           TranscriptionData(audio_dl_data[r], res.text, clock)]
                /\ stdout' = [stdout EXCEPT ![r] =
                                 Append(@, "Transcription successful!")]
                /\ UNCHANGED failed
           ELSE IF res.reason = "NoMatch"
           THEN /\ transcription_data' =
                       [transcription_data EXCEPT ![r] = EmptyDict]
                /\ stdout' = [stdout EXCEPT ![r] =
                                 Append(@, "No speech could be recognized.")]
                /\ UNCHANGED failed
           ELSE /\ transcription_data' =
                       [transcription_data EXCEPT ![r] = EmptyDict]
                /\ stdout' = [stdout EXCEPT ![r] =
                                 Append(@, "Speech recognition failed.")]
                /\ failed' = [failed EXCEPT ![r] = "recognize"]
    /\ started' = [started EXCEPT ![r] = Append(@, "recognize")]
    /\ pc' = [pc EXCEPT ![r] = "check"]
    /\ UNCHANGED <<url, info_dict, audio_dl_data, exc, ret, disk, storage,
                   clock, written, removed>>
    /\ UNCHANGED dateVars

\* lines 77-85: the speech SDK raises instead of returning a result
TranscribeRaises(r) ==
    /\ pc[r] = "transcribe"
    /\ exc' = [exc EXCEPT ![r] =
                  Raise("RuntimeError", audio_dl_data[r]["audio_file_path"])]
    /\ started' = [started EXCEPT ![r] = Append(@, "recognize")]
    /\ failed' = [failed EXCEPT ![r] = "recognize"]
    /\ pc' = [pc EXCEPT ![r] = "except"]
    /\ UNCHANGED <<url, info_dict, audio_dl_data, result, transcription_data,
                   ret, stdout, disk, storage, clock, written, removed>>
    /\ UNCHANGED dateVars

\* open(json_filepath, "w") and json.dump: the file of that name now holds doc
WriteFile(name, doc) ==
    [f \in DOMAIN storage \cup {name} |-> IF f = name THEN doc ELSE storage[f]]

\* lines 122-123 and 108-115: transcription_data is truthy and is saved
Save(r) ==
    /\ pc[r] = "check"
    /\ Truthy(transcription_data[r])
    /\ storage' = WriteFile(json_filename(clock), transcription_data[r])
    /\ written' = [written EXCEPT ![r] =
                      Append(@, [name |-> json_filename(clock),
                                 doc |-> transcription_data[r],
                                 at |-> clock])]
    /\ stdout' = [stdout EXCEPT ![r] = Append(@, "Transcription saved")]
    /\ started' = [started EXCEPT ![r] = Append(@, "persist")]
    /\ pc' = [pc EXCEPT ![r] = "cleanup"]
    /\ UNCHANGED <<url, info_dict, audio_dl_data, result, transcription_data,
                   exc, ret, disk, clock, failed, removed>>
    /\ UNCHANGED dateVars

\* lines 122-123 and 108-112: open() raises and nothing is written
SaveRaises(r) ==
    /\ pc[r] = "check"
    /\ Truthy(transcription_data[r])
    /\ exc' = [exc EXCEPT ![r] = Raise("OSError", json_filename(clock))]
    /\ started' = [started EXCEPT ![r] = Append(@, "persist")]
    /\ failed' = [failed EXCEPT ![r] = "persist"]
    /\ pc' = [pc EXCEPT ![r] = "except"]
    /\ UNCHANGED <<url, info_dict, audio_dl_data, result, transcription_data,
                   ret, stdout, disk, storage, clock, written, removed>>
    /\ UNCHANGED dateVars

\* line 122: transcription_data is falsy, nothing is saved
SkipSave(r) ==
    /\ pc[r] = "check"
    /\ ~Truthy(transcription_data[r])
    /\ pc' = [pc EXCEPT ![r] = "cleanup"]
    /\ UNCHANGED <<url, info_dict, audio_dl_data, result, transcription_data,
                   exc, ret, stdout, disk, storage, clock, started, failed,
                   written, removed>>
    /\ UNCHANGED dateVars

\* lines 126-128: os.remove(audio_file_path); return transcription_data
Cleanup(r) ==
    /\ pc[r] = "cleanup"
    /\ disk' = disk \ {audio_dl_data[r]["audio_file_path"]}
    /\ removed' = [removed EXCEPT ![r] =
                      Append(@, audio_dl_data[r]["audio_file_path"])]
    /\ ret' = [ret EXCEPT ![r] = RetDict(transcription_data[r])]
    /\ audio_dl_data' = [audio_dl_data EXCEPT ![r] = EmptyDict]
    /\ transcription_data' = [transcription_data EXCEPT ![r] = EmptyDict]
    /\ pc' = [pc EXCEPT ![r] = "done"]
    /\ UNCHANGED <<url, info_dict, result, exc, stdout, storage, clock,
                   started, failed, written>>
    /\ UNCHANGED dateVars

\* lines 129-131: except Exception as e: print(...); return ""
ProcessExcept(r) ==
    /\ pc[r] = "except"
    /\ IF CatchesProcess(exc[r].type)
       THEN /\ stdout' = [stdout EXCEPT ![r] =
                             Append(@, "Error processing audio")]
            /\ ret' = [ret EXCEPT ![r] = RetStr(<<>>)]
            /\ exc' = [exc EXCEPT ![r] = NoException]
            /\ pc' = [pc EXCEPT ![r] = "done"]
       ELSE /\ pc' = [pc EXCEPT ![r] = "escaped"]
            /\ UNCHANGED <<stdout, ret, exc>>
    /\ audio_dl_data' = [audio_dl_data EXCEPT ![r] = EmptyDict]
    /\ transcription_data' = [transcription_data EXCEPT ![r] = EmptyDict]
    /\ UNCHANGED <<url, info_dict, result, disk, storage, clock, started,
                   failed, written, removed>>
    /\ UNCHANGED dateVars

\* a second of UTC time passes
Tick ==
    /\ clock < MaxClock
    /\ clock' = clock + 1
    /\ UNCHANGED <<pc, url, info_dict, audio_dl_data, result,
                   transcription_data, exc, ret, stdout, disk, storage,
                   started, failed, written, removed>>
    /\ UNCHANGED dateVars

Init == RunInit /\ DateIdle

Next ==
    \/ \E r \in Runs : Start(r)
    \/ \E r \in Runs : ExtractInfo(r)
    \/ \E r \in Runs : ExtractInfoRaises(r)
    \/ \E r \in Runs : Transcode(r)
    \/ \E r \in Runs : TranscodeRaises(r)
    \/ \E r \in Runs : Metadata(r)
    \/ \E r \in Runs : RemoveDownloaded(r)
    \/ \E r \in Runs : DownloadExcept(r)
    \/ \E r \in Runs : TranscribeAudio(r)
    \/ \E r \in Runs : TranscribeRaises(r)
    \/ \E r \in Runs : Save(r)
    \/ \E r \in Runs : SaveRaises(r)
    \/ \E r \in Runs : SkipSave(r)
    \/ \E r \in Runs : Cleanup(r)
    \/ \E r \in Runs : ProcessExcept(r)
    \/ Tick

Spec == Init /\ [][Next]_vars

InitDate == RunInit /\ DateInit

NextDate == DateTryFormat \/ DateExhausted

SpecDate == InitDate /\ [][NextDate]_vars

(***************************************************************************)
(* Properties.                                                             *)
(***************************************************************************)
Range(s) == {s[i] : i \in 1..Len(s)}

Count(s, x) == Cardinality({i \in 1..Len(s) : s[i] = x})

Ended(r) == pc[r] \in {"done", "escaped"}

\* download, transcoding, recognition with non-empty text and the file write
\* have all succeeded in run r
AllSucceeded(r) ==
    /\ pc[r] \in {"cleanup", "done"}
    /\ failed[r] = "none"
    /\ result[r].reason = "RecognizedSpeech"
    /\ result[r].text.s # <<>>

\* C1: a run in which download, transcoding, recognition (RecognizedSpeech,
\* non-empty text) and the file write all succeed writes exactly one record;
\* its transcription_text is the recognized text, its source_url is the URL
\* the run was called with, and its audio_source_date, duration_string,
\* language and title are those the fetch stage returned; the record is in
\* storage under the name it was written to when the save returns.
C1_SuccessfulRunStoresOneFaithfulRecord ==
    \A r \in Runs :
        AllSucceeded(r) =>
            /\ Len(written[r]) = 1
            /\ written[r][1].doc["transcription_text"] = result[r].text
            /\ written[r][1].doc["transcription_text"].s # <<>>
            /\ written[r][1].doc["source_url"] = url[r]
            /\ pc[r] = "cleanup" =>
                /\ \A k \in {"audio_source_date", "duration_string",
                             "language", "title"} :
                       written[r][1].doc[k] = audio_dl_data[r][k]
                /\ written[r][1].name \in DOMAIN storage
                /\ storage[written[r][1].name] = written[r][1].doc

\* C1 witness: a successful run has ended with one record whose language is
\* None and whose title is a string
C1_Witness ==
    \E r \in Runs :
        /\ pc[r] = "done"
        /\ AllSucceeded(r)
        /\ Len(written[r]) = 1
        /\ written[r][1].doc["language"] = None
        /\ written[r][1].doc["title"] = Str(<<"Talk">>)
        /\ written[r][1].doc["source_url"] = SourceUrl(r)

\* the stages that come after the one that failed
LaterStages(f) ==
    CASE f = "fetch" -> {"transcode", "recognize", "persist"}
      [] f \in {"transcode", "metadata"} -> {"recognize", "persist"}
      [] f = "recognize" -> {"persist"}
      [] OTHER -> {}

ErrorReported(r) ==
    \/ "Error processing audio" \in Range(stdout[r])
    \/ "Speech recognition failed." \in Range(stdout[r])

C3_NoScratchFilesAfterRun ==
    \A r \in Runs :
        Ended(r) => downloaded_file(r) \notin disk /\ wav_path(r) \notin disk

\* C4: every record handed to save_transcription_to_json, and so every
\* document in storage, has a non-empty transcription_text.
C4_OnlyNonEmptyTextPersisted ==
    /\ \A r \in Runs : \A i \in 1..Len(written[r]) :
           written[r][i].doc["transcription_text"].s # <<>>
    /\ \A f \in DOMAIN storage : storage[f]["transcription_text"].s # <<>>

\* C5: once recognize_once has returned in a run, the run does not end with
\* its .wav file on disk, whatever the result and whatever the later steps
\* do; and the .wav file is not removed before recognize_once has returned.
C5_WavDeletedAfterRecognition ==
    \A r \in Runs :
        /\ (Ended(r) /\ result[r] # NoResult) => wav_path(r) \notin disk
        /\ wav_path(r) \in Range(removed[r]) => result[r] # NoResult

TranscodingSucceeded(r) ==
    "transcode" \in Range(started[r]) /\ failed[r] # "transcode"
    /\ pc[r] # "transcode"

\* C6: the downloaded media file is on disk when transcoding starts, is not
\* removed before transcoding has succeeded, is removed exactly once after
\* it has, and is not on disk once download_audio_from_yt is over, in
\* particular while the recognizer runs.
C6_RawFileDeletedExactlyOnce ==
    \A r \in Runs :
        /\ pc[r] = "transcode" => downloaded_file(r) \in disk
        /\ downloaded_file(r) \in Range(removed[r]) => TranscodingSucceeded(r)
        /\ Count(removed[r], downloaded_file(r)) <= 1
        /\ pc[r] \in {"transcribe", "check", "cleanup"} =>
               downloaded_file(r) \notin disk
        /\ (Ended(r) /\ TranscodingSucceeded(r)) =>
               /\ downloaded_file(r) \notin disk
               /\ Count(removed[r], downloaded_file(r)) = 1

\* C7: the value a run returns for a NoMatch recognition differs from the
\* value a run returns after a failure (a service failure or an exception
\* of any stage), and a NoMatch run writes no record.
C7_NoSpeechDistinctFromError ==
    \A r \in Runs :
        (pc[r] = "done" /\ result[r].reason = "NoMatch"
         /\ failed[r] = "none") =>
            /\ written[r] = <<>>
            /\ \A q \in Runs :
                   (pc[q] = "done" /\ failed[q] # "none") => ret[r] # ret[q]

\* the source did not provide the field, or not in a form that can be used
Unavailable(info, k) ==
    \/ ~Has(info, k)
    \/ info[k] = None
    \/ k = "upload_date" /\ info[k] = Str(<<"not", "-", "a", "-", "date">>)

AudioKey(k) == IF k = "upload_date" THEN "audio_source_date" ELSE k

\* C8: whatever optional fields the source leaves out or gives unusable,
\* once download and transcoding have succeeded the fetch returns a result
\* in which each such field is None and every other field is passed through
\* (the upload date as its ISO form).
C8_MissingMetadataDegradesToNone ==
    \A r \in Runs :
        info_dict[r] # EmptyDict =>
            /\ pc[r] = "remove"
            /\ failed[r] = "none"
            /\ \A k \in OptionalKeys :
                   audio_dl_data[r][AudioKey(k)] =
                       IF Unavailable(info_dict[r], k) THEN None
                       ELSE IF k = "upload_date"
                            THEN Str(<<"2", "0", "2", "4", "-", "0", "2", "-",
                                       "1", "4">>)
                            ELSE info_dict[r][k]

\* C9: two runs that save in the same second write to different file names,
\* and once both have ended both of their records are in storage.
C9_SameSecondFilenamesDistinct ==
    \A r \in Runs : \A q \in Runs \ {r} :
        \A i \in 1..Len(written[r]) : \A j \in 1..Len(written[q]) :
            written[r][i].at = written[q][j].at =>
                /\ written[r][i].name # written[q][j].name
                /\ (Ended(r) /\ Ended(q)) =>
                       /\ written[r][i].name \in DOMAIN storage
                       /\ storage[written[r][i].name] = written[r][i].doc

\* the triples of Dates that are calendar dates
IsCalendarDate(v) ==
    ~(v.m = 2 /\ (v.d = 31 \/ (v.d = 29 /\ v.Y = 1999)))

DateCallOver == date_pc \in {"returned", "raised"}

\* C10: to_iso_date tries the eight formats in their listed order.  For a
\* calendar date written in the k-th documented pattern it returns, at the
\* k-th format and not before, that date as YYYY-MM-DD, the same for all
\* eight patterns; for a string in none of the patterns, and for a pattern
\* filled with an impossible date, it raises ValueError naming the argument
\* after trying all eight.
C10_ToIsoDate ==
    /\ \A k \in PatternIds : \A v \in Dates :
           (DateCallOver /\ date_str = Str(Render(k, v))) =>
               IF IsCalendarDate(v)
               THEN /\ date_pc = "returned"
                    /\ date_ret.value = Str(Render(8, v))
                    /\ fmt_i = k
               ELSE /\ date_pc = "raised"
                    /\ date_ret.exc = Raise("ValueError", date_str)
    /\ (DateCallOver /\ ~date_str.isNone /\ date_str.s \in NoPatternInputs) =>
           /\ date_pc = "raised"
           /\ date_ret.exc = Raise("ValueError", date_str)
           /\ fmt_i = 9
    /\ date_pc = "loop" => fmt_i \in 1..9

\* C10 witness: "February 14, 2024" has been parsed, at the sixth format,
\* to "2024-02-14"
C10_Witness ==
    /\ date_pc = "returned"
    /\ date_str = Str(<<"February", " ", "1", "4", ",", " ",
                        "2", "0", "2", "4">>)
    /\ date_ret.value = Str(<<"2", "0", "2", "4", "-", "0", "2", "-",
                              "1", "4">>)
    /\ fmt_i = 6

====
